---- MODULE Spec2Model ----
(***************************************************************************)
(* The request-validation pipeline of POST /bar/:id (src/index.ts 1-147):  *)
(* three runtypes descriptors, three parser middlewares attached in the    *)
(* order body, query, path params, and the terminal handler.  A request is *)
(* received, walks the route's middleware stack one entry per step, and is *)
(* answered either by the middleware that rejects it (400) or by the       *)
(* handler (200).                                                          *)
(***************************************************************************)
EXTENDS Naturals, Sequences, FiniteSets, TLC

VARIABLES
    phase,      \* "idle" | "running" | "sent": where the server is with the request
    input,      \* the request as the client sent it: [body, query, params]
    req,        \* the request context the middlewares and the handler read
    idx,        \* position in the route's middleware stack (express's next() advances it)
    res,        \* the response written for the request, NoResponse until one is sent
    console,    \* number of lines console.log has written since the server started
    earlier,    \* an exchange a client has kept: [route, req, res, at], at the
                \* console count when it was answered; NoExchange until it keeps one
    route,      \* the route the request was matched to, "none" without a request
    trace,      \* the stack entries express has called for the request, in order
    answers,    \* how many responses have been sent for the request
    other       \* a second request in flight: its own phase, input, req, idx, res,
                \* route, trace and answers

vars == <<phase, input, req, idx, res, console, earlier, route, trace, answers, other>>

(***************************************************************************)
(* Bounds of the model.                                                    *)
(***************************************************************************)
\* longest local part (the text before the mail domain) of a submitted email
MaxLocalLen == 1
\* most fields a body or a query carries beyond the declared one
MaxExtra == 1
\* most values a repeated query key carries (qs turns them into an array)
MaxRepeat == 2
\* console lines after which the server takes no further request
MaxConsole == 6

(***************************************************************************)
(* JavaScript values.  A value is [t, s, a]: its typeof-like tag, its text *)
(* (the string itself, or a number's decimal rendering) and, for an array, *)
(* its elements (strings: qs only ever builds arrays of strings here).     *)
(* An object is a function from its own enumerable keys to values.         *)
(***************************************************************************)
JsString(s) == [t |-> "string", s |-> s, a |-> <<>>]
JsNumber(s) == [t |-> "number", s |-> s, a |-> <<>>]
JsArray(a) == [t |-> "array", s |-> "", a |-> a]

EmptyObject == [k \in {} |-> JsString("")]

hasKey(key, x) == key \in DOMAIN x

\* The backtick character, which a TLA+ string cannot hold.
Tick == "'"

\* Array.prototype.join(",") as String(array) performs it
RECURSIVE JoinComma(_)
JoinComma(a) ==
    IF a = <<>> THEN ""
    ELSE IF Len(a) = 1 THEN a[1]
    ELSE a[1] \o "," \o JoinComma(Tail(a))

\* String.prototype.endsWith
endsWith(s, searchString) ==
    /\ Len(s) >= Len(searchString)
    /\ SubSeq(s, Len(s) - Len(searchString) + 1, Len(s)) = searchString

(***************************************************************************)
(* The runtypes descriptors (import * as RT from 'runtypes') and their     *)
(* check, as the routes use them and as the README's transcripts show      *)
(* their failures.                                                         *)
(***************************************************************************)
Unknown == [tag |-> "unknown"]
\* RT.Guard(g) is Unknown.withGuard(g): a constraint over Unknown
Guard(g) == [tag |-> "constraint", underlying |-> Unknown, constraint |-> g]
Literal(valueBase) == [tag |-> "literal", value |-> valueBase]
Union(alternatives) == [tag |-> "union", alternatives |-> alternatives]
\* fields: the declared fields in declaration order, each [key, runtype]
RecordOf(fields, isPartial) == [tag |-> "record", fields |-> fields, isPartial |-> isPartial]
Record(fields) == RecordOf(fields, FALSE)
Partial(fields) == RecordOf(fields, TRUE)

\* a runtype's rendering in a failure message
RECURSIVE show(_)
RECURSIVE showAlternatives(_)
showAlternatives(alternatives) ==
    IF Len(alternatives) = 1 THEN show(alternatives[1])
    ELSE show(alternatives[1]) \o " | " \o showAlternatives(Tail(alternatives))
show(runtype) ==
    CASE runtype.tag = "unknown" -> "unknown"
      [] runtype.tag = "constraint" -> show(runtype.underlying)
      [] runtype.tag = "literal" -> "\"" \o runtype.value \o "\""
      [] runtype.tag = "union" -> showAlternatives(runtype.alternatives)
      [] OTHER -> "{ ... }"

\* the type a failure message names for a received value
typeOf(value) == value.t

\* String(value), with which a literal's failure message renders what it received
String(value) == IF value.t = "array" THEN JoinComma(value.a) ELSE value.s

SUCCESS(value) == [success |-> TRUE, value |-> value]
TYPE_INCORRECT(self, value) ==
    [success |-> FALSE, code |-> "TYPE_INCORRECT",
     message |-> "Expected " \o show(self) \o ", but was " \o typeOf(value)]
VALUE_INCORRECT(name, expected, received) ==
    [success |-> FALSE, code |-> "VALUE_INCORRECT",
     message |-> "Expected " \o name \o " " \o expected \o ", but was " \o received]
PROPERTY_MISSING(self) ==
    [success |-> FALSE, code |-> "PROPERTY_MISSING",
     message |-> "Expected " \o show(self) \o ", but was missing"]
CONSTRAINT_FAILED(self) ==
    [success |-> FALSE, code |-> "CONSTRAINT_FAILED",
     message |-> "Failed constraint check for " \o show(self)]
\* (the message's further lines, a rendering of details, are left out:
\*  it is not an enumerable property and is never serialised)
CONTENT_INCORRECT(self, details) ==
    [success |-> FALSE, code |-> "CONTENT_INCORRECT",
     message |-> "Validation failed", details |-> details]

JsUndefined == [t |-> "undefined", s |-> "undefined", a |-> <<>>]

\* String.prototype.includes
includes(s, searchString) ==
    \E i \in 1..(Len(s) + 1) :
        /\ i + Len(searchString) - 1 <= Len(s)
        /\ SubSeq(s, i, i + Len(searchString) - 1) = searchString

\* isEmail with includes in the place of endsWith
isEmailIncludes(email) == email.t = "string" /\ includes(email.s, "@gmail.com")

\* isEmail with a verdict that also depends on what the server has done so far
isEmailStateful(email) ==
    email.t = "string" /\ endsWith(email.s, "@gmail.com") /\ console % 2 = 0

\* const isEmail = (email: unknown): email is GmailAddress => ...
isEmail(email) == email.t = "string" /\ endsWith(email.s, "@gmail.com")

\* the guard function a constraint carries
constraint(g, value) == CASE g = "isEmail" -> isEmail(value)

RECURSIVE innerValidate(_, _)

\* Literal: value === valueBase, and on a mismatch both sides rendered in backticks
validateLiteral(self, value) ==
    IF value.t = "string" /\ value.s = self.value
    THEN SUCCESS(value)
    ELSE VALUE_INCORRECT("literal", Tick \o self.value \o Tick,
                         Tick \o String(value) \o Tick)

\* Union: the first alternative that accepts the value wins; when none does the
\* failure is the union's own, naming the type of what it received
validateUnion(self, value) ==
    IF \E i \in 1..Len(self.alternatives) :
           innerValidate(self.alternatives[i], value).success
    THEN SUCCESS(value)
    ELSE TYPE_INCORRECT(self, value)

\* Constraint: the underlying type first, then the guard
validateConstraint(self, value) ==
    LET result == innerValidate(self.underlying, value)
    IN  IF ~result.success THEN result
        ELSE IF ~constraint(self.constraint, result.value) THEN CONSTRAINT_FAILED(self)
        ELSE SUCCESS(result.value)

\* a record that takes no key beyond the declared ones: such a key fails
validateRecordExact(self, x) ==
    LET n == Len(self.fields)
        keysOfFields == {self.fields[i].key : i \in 1..n}
        runtypeOf(key) == self.fields[CHOOSE i \in 1..n : self.fields[i].key = key].runtype
        results == [key \in keysOfFields |->
                       IF hasKey(key, x) THEN innerValidate(runtypeOf(key), x[key])
                       ELSE IF ~self.isPartial THEN PROPERTY_MISSING(runtypeOf(key))
                       ELSE SUCCESS(JsUndefined)]
        failing == {key \in keysOfFields : ~results[key].success}
        unknown == (DOMAIN x) \ keysOfFields
        details == [key \in failing \cup unknown |->
                       IF key \in unknown THEN "Expected nothing, but was " \o typeOf(x[key])
                       ELSE IF "details" \in DOMAIN results[key]
                       THEN results[key].details ELSE results[key].message]
    IN  IF failing \cup unknown # {} THEN CONTENT_INCORRECT(self, details) ELSE SUCCESS(x)

\* Record: every declared key is validated, a key x lacks is PROPERTY_MISSING
\* unless the record is partial, the keys x has beyond the declared ones succeed
\* as they are; details holds one reason per failing key, and a success
\* returns x itself
validateRecord(self, x) ==
    LET n == Len(self.fields)
        keysOfFields == {self.fields[i].key : i \in 1..n}
        runtypeOf(key) == self.fields[CHOOSE i \in 1..n : self.fields[i].key = key].runtype
        results == [key \in keysOfFields |->
                       IF hasKey(key, x) THEN innerValidate(runtypeOf(key), x[key])
                       ELSE IF ~self.isPartial THEN PROPERTY_MISSING(runtypeOf(key))
                       ELSE SUCCESS(JsUndefined)]
        failing == {key \in keysOfFields : ~results[key].success}
        details == [key \in failing |->
                       IF "details" \in DOMAIN results[key]
                       THEN results[key].details ELSE results[key].message]
    IN  IF failing # {} THEN CONTENT_INCORRECT(self, details) ELSE SUCCESS(x)

innerValidate(runtype, x) ==
    CASE runtype.tag = "unknown" -> SUCCESS(x)
      [] runtype.tag = "constraint" -> validateConstraint(runtype, x)
      [] runtype.tag = "literal" -> validateLiteral(runtype, x)
      [] runtype.tag = "union" -> validateUnion(runtype, x)
      [] runtype.tag = "record" -> validateRecord(runtype, x)

\* the error check() throws: name, code and details are its enumerable
\* properties, message is Error's own and not enumerable
ValidationError(failure) ==
    [name |-> "ValidationError", code |-> failure.code,
     message |-> failure.message, details |-> failure.details]

\* runtype.check(x): the validated value, or a throw of ValidationError
check(runtype, x) ==
    LET result == innerValidate(runtype, x)
    IN  IF result.success THEN [threw |-> FALSE, value |-> result.value]
        ELSE [threw |-> TRUE, err |-> ValidationError(result)]

\* JSON.stringify of an object: its own enumerable properties
toJSON(err) == [k \in (DOMAIN err) \ {"message"} |-> err[k]]

(***************************************************************************)
(* The descriptors of the routes.                                          *)
(***************************************************************************)
\* the payload descriptor declared with RT.Partial: email becomes optional
PayloadRuntypePartial == Partial(<<[key |-> "email", runtype |-> Guard("isEmail")]>>)

PayloadRuntype == Record(<<[key |-> "email", runtype |-> Guard("isEmail")]>>)

\* the query descriptor with another literal
QueryParamRuntypeBaz == Record(<<[key |-> "foo", runtype |-> Literal("baz")]>>)

QueryParamRuntype == Record(<<[key |-> "foo", runtype |-> Literal("bar")]>>)

\* the path descriptor with the bare first literal in the place of the union
PathParamRuntypeFirstOnly == Record(<<[key |-> "id", runtype |-> Literal("1")]>>)

\* the path descriptor with a third alternative
PathParamRuntypeThree ==
    Record(<<[key |-> "id",
              runtype |-> Union(<<Literal("1"), Literal("2"), Literal("3")>>)]>>)

PathParamRuntype ==
    Record(<<[key |-> "id", runtype |-> Union(<<Literal("1"), Literal("2")>>)]>>)

(***************************************************************************)
(* The requests a client can send.  express.json() hands the middlewares   *)
(* an object as req.body ({} when the request has no body; a JSON array    *)
(* is an object whose keys are its indices), qs hands them req.query with  *)
(* a string, an array of strings or a nested object per key, and the       *)
(* route '/bar/:id' hands them req.params with the one string id.          *)
(***************************************************************************)
RECURSIVE Rep(_, _)
Rep(c, n) == IF n = 0 THEN "" ELSE c \o Rep(c, n - 1)

LocalParts == {Rep("t", n) : n \in 0..MaxLocalLen}
MailTails == {"@gmail.com", "@random.com", "@gmail.com.au", "gmail.com"}
EmailValues ==
    {JsString(l \o t) : l \in LocalParts, t \in MailTails} \cup {JsNumber("42")}

ExtraKey(i) == "random" \o Rep("x", i - 1)
WithExtras(declared, n, value) ==
    declared @@ [k \in {ExtraKey(i) : i \in 1..n} |-> value]

ArrayBody == ("0" :> JsString("test@gmail.com"))
Bodies ==
    {WithExtras(d, n, JsString("test@gmail.com")) :
        d \in {EmptyObject} \cup {("email" :> v) : v \in EmailValues},
        n \in 0..MaxExtra}
    \cup {ArrayBody}

JsNested == [t |-> "object", s |-> "[object Object]", a |-> <<>>]
FooValues ==
    {JsString(s) : s \in {"bar", "random", ""}}
    \cup {JsArray(a) : a \in UNION {[1..n -> {"bar", "random"}] : n \in 1..MaxRepeat}}
    \cup {JsNested}
Queries ==
    {WithExtras(d, n, JsString("bar")) :
        d \in {EmptyObject} \cup {("foo" :> v) : v \in FooValues},
        n \in 0..MaxExtra}

Ids == {"1", "2", "3", "random"}
Params == {("id" :> JsString(i)) : i \in Ids}

Requests == [body : Bodies, query : Queries, params : Params]

NoRequest == [body |-> EmptyObject, query |-> EmptyObject, params |-> EmptyObject]
NoResponse == [status |-> 0, body |-> EmptyObject]
NoExchange == [route |-> "none", req |-> NoRequest, res |-> NoResponse, at |-> 0]

\* the per-request state of a connection without a request
Idle ==
    [phase |-> "idle", input |-> NoRequest, req |-> NoRequest, idx |-> 0,
     res |-> NoResponse, route |-> "none", trace |-> <<>>, answers |-> 0]

(***************************************************************************)
(* POST /bar/:id: the middleware stack and its steps.                      *)
(***************************************************************************)
\* the route with the query middleware attached before the body middleware
BarIdStackQueryFirst ==
    <<"queryTypeParserMiddleware", "bodyTypeParserMiddleware",
      "pathParamsParserMiddleware", "handler">>

\* the route with the query middleware forgotten
BarIdStackNoQuery ==
    <<"bodyTypeParserMiddleware", "pathParamsParserMiddleware", "handler">>

\* app.post('/bar/:id', body, query, path params, handler)
BarIdStack ==
    <<"bodyTypeParserMiddleware", "queryTypeParserMiddleware",
      "pathParamsParserMiddleware", "handler">>

\* app.post('/foo', handler): the handler validates inline
FooStack == <<"fooHandler">>

\* app.post('/bar', body, query, handler)
BarChainStack ==
    <<"bodyTypeParserMiddleware", "queryTypeParserMiddleware", "barHandler">>

\* app.post('/bar', typeParserMiddleware(body, query), handler)
BarCombinedStack == <<"typeParserMiddleware", "barPayloadHandler">>

\* the stack of the route a request was matched to; '/bar' is attached with
\* the chain of two middlewares in one version of the server and with the one
\* combined middleware in another
Stack(rt) ==
    CASE rt = "/bar/:id" -> BarIdStack
      [] rt = "/foo" -> FooStack
      [] rt = "/bar chain" -> BarChainStack
      [] rt = "/bar combined" -> BarCombinedStack
      [] OTHER -> <<>>

\* the stack entry express is about to call
Current ==
    IF phase = "running" /\ idx \in 1..Len(Stack(route)) THEN Stack(route)[idx] ELSE "none"

\* next(): express moves on to the following entry of the stack
next == /\ idx' = idx + 1
        /\ req' = req
        /\ trace' = Append(trace, Current)
        /\ UNCHANGED <<phase, input, res, console, earlier, route, answers, other>>

\* the error sent without its envelope: res.status(400).send(err)
ErrorResponseBare(err) == [status |-> 400, body |-> toJSON(err)]

\* res.status(400).send({ error: err })
ErrorResponse(err) == [status |-> 400, body |-> [error |-> toJSON(err)]]

send(response) ==
    /\ res' = response
    /\ phase' = "sent"
    /\ answers' = answers + 1
    /\ trace' = Append(trace, Current)
    /\ UNCHANGED <<input, req, idx, earlier, route, other>>

\* the fields a descriptor declares
Declared(runtype) == {runtype.fields[i].key : i \in 1..Len(runtype.fields)}

\* a middleware that assigns the checked value, cut down to the declared
\* fields, to the slice before it goes on
parseWriteBack(runtype, slice) ==
    LET r == check(runtype, req[slice])
    IN  IF ~r.threw
        THEN /\ idx' = idx + 1
             /\ req' = [req EXCEPT ![slice] =
                           [k \in (DOMAIN r.value) \cap Declared(runtype) |-> r.value[k]]]
             /\ trace' = Append(trace, Current)
             /\ UNCHANGED <<phase, input, res, console, earlier, route, answers, other>>
        ELSE send(ErrorResponse(r.err)) /\ UNCHANGED console

\* a middleware whose catch answers and then goes on to the next entry
parseRespondAndContinue(runtype, slice) ==
    LET r == check(runtype, req[slice])
    IN  IF ~r.threw THEN next
        ELSE /\ res' = ErrorResponse(r.err)
             /\ answers' = answers + 1
             /\ idx' = idx + 1
             /\ trace' = Append(trace, Current)
             /\ UNCHANGED <<phase, input, req, console, earlier, route, other>>

\* a middleware whose catch empties the slice it rejects
parseClearOnFailure(runtype, slice) ==
    LET r == check(runtype, req[slice])
    IN  IF ~r.threw THEN next
        ELSE /\ res' = ErrorResponse(r.err)
             /\ phase' = "sent"
             /\ answers' = answers + 1
             /\ trace' = Append(trace, Current)
             /\ req' = [req EXCEPT ![slice] = EmptyObject]
             /\ UNCHANGED <<input, idx, console, earlier, route, other>>

\* a middleware whose catch does nothing: neither next() nor a response
parseSwallow(runtype, slice) ==
    LET r == check(runtype, req[slice])
    IN  IF ~r.threw THEN next ELSE UNCHANGED vars

\* try { runtype.check(req[slice]); next(); } catch (err) { res.status(400).send(...) }
parse(runtype, slice) ==
    LET r == check(runtype, req[slice])
    IN  IF ~r.threw THEN next
        ELSE send(ErrorResponse(r.err)) /\ UNCHANGED console

bodyTypeParserMiddleware ==
    /\ Current = "bodyTypeParserMiddleware"
    /\ parse(PayloadRuntype, "body")

queryTypeParserMiddleware ==
    /\ Current = "queryTypeParserMiddleware"
    /\ parse(QueryParamRuntype, "query")

pathParamsParserMiddleware ==
    /\ Current = "pathParamsParserMiddleware"
    /\ parse(PathParamRuntype, "params")

\* res.json(payload), as the route's first version answered
HandlerResponsePayloadOnly(r) == [status |-> 200, body |-> r.body]

\* res.json({ payload, query, params }) of the slices as the request holds them
HandlerResponse(r) ==
    [status |-> 200, body |-> [payload |-> r.body, query |-> r.query, params |-> r.params]]

\* the three loggers write one console line each
LoggerLines == 3

handler ==
    /\ Current = "handler"
    /\ console' = console + LoggerLines
    /\ send(HandlerResponse(req))

\* a request arrives on a route and express enters its stack at the first entry
ReceiveOn(rt, r) ==
    /\ phase = "idle"
    /\ console + LoggerLines <= MaxConsole
    /\ phase' = "running"
    /\ route' = rt
    /\ input' = r
    /\ req' = r
    /\ idx' = 1
    /\ res' = NoResponse
    /\ trace' = <<>>
    /\ answers' = 0
    /\ UNCHANGED <<console, earlier, other>>

\* a request arrives on POST /bar/:id
Receive(r) == ReceiveOn("/bar/:id", r)

\* the response has gone out: the request and its context are discarded
Close ==
    /\ phase = "sent"
    /\ phase' = "idle"
    /\ input' = NoRequest
    /\ req' = NoRequest
    /\ idx' = 0
    /\ res' = NoResponse
    /\ route' = "none"
    /\ trace' = <<>>
    /\ answers' = 0
    /\ UNCHANGED <<console, earlier, other>>

Init ==
    /\ phase = "idle"
    /\ input = NoRequest
    /\ req = NoRequest
    /\ idx = 0
    /\ res = NoResponse
    /\ console = 0
    /\ earlier = NoExchange
    /\ route = "none"
    /\ trace = <<>>
    /\ answers = 0
    /\ other = Idle

Next ==
    \/ \E r \in Requests : Receive(r)
    \/ bodyTypeParserMiddleware
    \/ queryTypeParserMiddleware
    \/ pathParamsParserMiddleware
    \/ handler
    \/ Close

Spec == Init /\ [][Next]_vars

(***************************************************************************)
(* The same server with a client that keeps an exchange and submits the    *)
(* request again later, other requests in between.                         *)
(***************************************************************************)
ReplayBodies ==
    {EmptyObject, ("email" :> JsString("@gmail.com")), ("email" :> JsString("@random.com"))}
ReplayQueries ==
    {EmptyObject, ("foo" :> JsString("bar")), ("foo" :> JsString("random"))}
ReplayParams == {("id" :> JsString("1")), ("id" :> JsString("random"))}
ReplayRequests == [body : ReplayBodies, query : ReplayQueries, params : ReplayParams]

\* the client keeps what it sent and what it was answered
Remember ==
    /\ phase = "sent"
    /\ earlier # [route |-> route, req |-> input, res |-> res, at |-> console]
    /\ earlier' = [route |-> route, req |-> input, res |-> res, at |-> console]
    /\ UNCHANGED <<phase, input, req, idx, res, console, route, trace, answers, other>>

NextReplay ==
    \/ \E r \in ReplayRequests : Receive(r)
    \/ bodyTypeParserMiddleware
    \/ queryTypeParserMiddleware
    \/ pathParamsParserMiddleware
    \/ handler
    \/ Remember
    \/ Close

SpecReplay == Init /\ [][NextReplay]_vars

(***************************************************************************)
(* What the claims speak of, stated on the request as the client sent it   *)
(* and on the response, without the descriptors' check.                    *)
(***************************************************************************)
Sent == phase = "sent"
Rejected == Sent /\ res.status = 400

HasSuffix(s, suffix) == \E n \in 0..Len(s) : s = SubSeq(s, 1, n) \o suffix

BodyOk(body) ==
    /\ "email" \in DOMAIN body
    /\ body["email"].t = "string"
    /\ HasSuffix(body["email"].s, "@gmail.com")
QueryOk(query) == "foo" \in DOMAIN query /\ query["foo"] = JsString("bar")
ParamsOk(params) == "id" \in DOMAIN params /\ params["id"] \in {JsString("1"), JsString("2")}

\* the slices of a request that are invalid, by the position of their stage
\* in the attachment order body (1), query (2), path params (3)
InvalidStages(r) ==
    {i \in 1..3 : \/ i = 1 /\ ~BodyOk(r.body)
                  \/ i = 2 /\ ~QueryOk(r.query)
                  \/ i = 3 /\ ~ParamsOk(r.params)}
EarliestInvalid(r) == CHOOSE i \in InvalidStages(r) : \A j \in InvalidStages(r) : i <= j

\* the field each stage's descriptor declares
StageField(i) == CASE i = 1 -> "email" [] i = 2 -> "foo" [] i = 3 -> "id"

\* the error a stage's own descriptor raises for its slice of r
StageError(i, r) ==
    CASE i = 1 -> toJSON(check(PayloadRuntype, r.body).err)
      [] i = 2 -> toJSON(check(QueryParamRuntype, r.query).err)
      [] i = 3 -> toJSON(check(PathParamRuntype, r.params).err)

Details == res.body.error.details

\* C1: when more than one slice of a request to POST /bar/:id is invalid, the
\* one error returned is that of the earliest-attached failing stage: body
\* before query before path params.
C1_EarliestStageWins ==
    (Sent /\ Cardinality(InvalidStages(input)) > 1) =>
        /\ res.status = 400
        /\ res.body.error = StageError(EarliestInvalid(input), input)
        /\ DOMAIN Details = {StageField(EarliestInvalid(input))}

\* a request with all three slices invalid has been answered
C1_Witness ==
    /\ Rejected
    /\ InvalidStages(input) = {1, 2, 3}
    /\ "foo" \in DOMAIN input.query

\* C2: the terminal handler runs only after every stage has passed: whenever
\* the handler is about to run or has answered, body, query and params each
\* satisfy their descriptor.
C2_HandlerOnlyAfterAllPassed ==
    (Current = "handler" \/ (Sent /\ res.status = 200)) =>
        /\ BodyOk(req.body)
        /\ QueryOk(req.query)
        /\ ParamsOk(req.params)
        /\ InvalidStages(input) = {}

\* express is about to call the handler
C2_Witness == Current = "handler" /\ res = NoResponse

\* C3: the response is 200 if and only if body.email is a string ending in
\* "@gmail.com", query.foo is exactly "bar" and params.id is "1" or "2"; in
\* every other case it is 400.
C3_StatusIffAllValid ==
    Sent =>
        /\ res.status \in {200, 400}
        /\ res.status = 200 <=>
              (BodyOk(input.body) /\ QueryOk(input.query) /\ ParamsOk(input.params))

\* a 200 has been sent for an email with a non-empty local part
C3_Witness ==
    /\ Sent
    /\ res.status = 200
    /\ Len(input.body["email"].s) > Len("@gmail.com")

\* C4: a rejected request is answered 400 with the envelope {error: {name:
\* "ValidationError", code: "CONTENT_INCORRECT", details}}, details holding
\* exactly one key, the field the failing stage's descriptor declares.
C4_ErrorEnvelope ==
    Rejected =>
        /\ DOMAIN res.body = {"error"}
        /\ DOMAIN res.body.error = {"name", "code", "details"}
        /\ res.body.error.name = "ValidationError"
        /\ res.body.error.code = "CONTENT_INCORRECT"
        /\ Cardinality(DOMAIN Details) = 1
        /\ DOMAIN Details = {StageField(EarliestInvalid(input))}

\* the query stage has rejected a request whose path id is invalid as well
C4_Witness ==
    /\ Rejected
    /\ InvalidStages(input) = {2, 3}
    /\ DOMAIN Details = {"foo"}

Restrict(object, keys) == [k \in (DOMAIN object) \cap keys |-> object[k]]

AllOk(r) == BodyOk(r.body) /\ QueryOk(r.query) /\ ParamsOk(r.params)

MissingReason(field) ==
    /\ res.status = 400
    /\ DOMAIN Details = {field}
    /\ HasSuffix(Details[field], "but was missing")

\* C6 as stated: for every input missing a required field (body without
\* email, query without foo) details holds exactly that field, with a reason
\* ending in "but was missing".
C6_MissingFieldReported ==
    Sent =>
        /\ "email" \notin DOMAIN input.body => MissingReason("email")
        /\ "foo" \notin DOMAIN input.query => MissingReason("foo")

\* C6 as amended: the missing field reported is that of the earliest failing
\* stage: a body without email always, a query without foo when the body is
\* valid.
C6_MissingFieldOfEarliestStage ==
    Sent =>
        /\ "email" \notin DOMAIN input.body => MissingReason("email")
        /\ (BodyOk(input.body) /\ "foo" \notin DOMAIN input.query) => MissingReason("foo")

\* a request with a valid body and the query key random in the place of foo
\* has been rejected
C6_Witness ==
    /\ Rejected
    /\ BodyOk(input.body)
    /\ DOMAIN input.query = {"random"}
    /\ "foo" \in DOMAIN Details

\* C7: the same request (same body, query, params) submitted again, in
\* whatever state the server then is, gets the same status and the same body.
C7_SameRequestSameResponse ==
    (Sent /\ earlier # NoExchange /\ earlier.req = input) => res = earlier.res

\* a request answered 200 earlier has been answered again after the server
\* has logged more lines
C7_Witness ==
    /\ Sent
    /\ earlier.req = input
    /\ earlier.res.status = 200
    /\ earlier.at < console

\* the failure message of the union's first alternative, Literal('1')
FirstAlternativeReason(value) ==
    "Expected literal " \o Tick \o "1" \o Tick \o ", but was " \o Tick \o value.s \o Tick

\* C8 as stated: when id matches no alternative, the reason reported for id is
\* the failure message of the first alternative.
C8_FirstAlternativeReason ==
    (Rejected /\ "id" \in DOMAIN Details) =>
        Details["id"] = FirstAlternativeReason(input.params["id"])

\* C8 as amended: when id matches no alternative, the reason reported for id is
\* the union's own: it names every alternative and the type of the value
\* received, and is not the first alternative's.
C8_UnionReason ==
    (Rejected /\ "id" \in DOMAIN Details) =>
        /\ Details["id"] =
              "Expected \"1\" | \"2\", but was " \o input.params["id"].t
        /\ Details["id"] # FirstAlternativeReason(input.params["id"])

\* the path id 3 has been rejected
C8_Witness ==
    /\ Rejected
    /\ "id" \in DOMAIN Details
    /\ input.params["id"] = JsString("3")

\* C9: with a valid body and a valid query, a path id that is a string other
\* than "1" and "2" is answered 400 with details {id: 'Expected "1" | "2",
\* but was string'}.
C9_WrongPathParam ==
    (Sent /\ BodyOk(input.body) /\ QueryOk(input.query)
          /\ input.params["id"].t = "string" /\ input.params["id"].s \notin {"1", "2"}) =>
        res = [status |-> 400,
               body |-> [error |-> [name |-> "ValidationError",
                                    code |-> "CONTENT_INCORRECT",
                                    details |-> ("id" :> "Expected \"1\" | \"2\", but was string")]]]

\* the README's request, path id random and the rest valid, has been answered
C9_Witness ==
    /\ Sent
    /\ AllOk([input EXCEPT !.params = ("id" :> JsString("1"))])
    /\ input.params["id"] = JsString("random")
    /\ res.status = 400

\* the elements of an array joined by commas
CommaJoined(a) ==
    LET F[i \in 0..Len(a)] ==
            IF i = 0 THEN "" ELSE IF i = 1 THEN a[1] ELSE F[i - 1] \o "," \o a[i]
    IN  F[Len(a)]

\* what a value is converted to where a message quotes it
Quoted(value) ==
    CASE value.t = "array" -> CommaJoined(value.a)
      [] value.t = "object" -> "[object Object]"
      [] OTHER -> value.s

WrongFoo ==
    /\ Sent
    /\ BodyOk(input.body)
    /\ "foo" \in DOMAIN input.query
    /\ input.query["foo"] # JsString("bar")

LiteralReason(received) ==
    "Expected literal " \o Tick \o "bar" \o Tick \o ", but was " \o Tick \o received \o Tick

AttachmentOrder ==
    <<"bodyTypeParserMiddleware", "queryTypeParserMiddleware",
      "pathParamsParserMiddleware", "handler">>

\* C11: the stages of a request are called strictly in attachment order, and
\* once a stage has failed no later entry is called for that request.
C11_ShortCircuit ==
    route = "/bar/:id" =>
        /\ Len(trace) <= Len(AttachmentOrder)
        /\ trace = SubSeq(AttachmentOrder, 1, Len(trace))
        /\ \A i \in 1..Len(trace) : i \in InvalidStages(input) => i = Len(trace)

\* the body stage has rejected a request whose query and path id are invalid
\* as well, and nothing else has been called
C11_Witness ==
    /\ Rejected
    /\ InvalidStages(input) = {1, 2, 3}
    /\ trace = <<"bodyTypeParserMiddleware">>

\* the stage express is about to call, by its position in the attachment order
\* (0 when it is not about to call a parser middleware)
StageAt ==
    CASE Current = "bodyTypeParserMiddleware" -> 1
      [] Current = "queryTypeParserMiddleware" -> 2
      [] Current = "pathParamsParserMiddleware" -> 3
      [] OTHER -> 0

SliceOf(i) == CASE i = 1 -> "body" [] i = 2 -> "query" [] i = 3 -> "params"

\* the stage about to be called finds its slice valid / invalid
StageFindsValid == StageAt # 0 /\ StageAt \notin InvalidStages(req)
StageFindsInvalid == StageAt # 0 /\ StageAt \in InvalidStages(req)

\* C12 as stated: a stage that finds its slice valid writes the value cut down
\* to the descriptor's declared fields back into the context, under the same
\* slice, before control continues.
C12_WritesBackRestricted ==
    [][(StageFindsValid /\ idx' = idx + 1) =>
          req'[SliceOf(StageAt)] = Restrict(req[SliceOf(StageAt)], {StageField(StageAt)})]_vars

\* C12 as amended: a stage that finds its slice valid writes nothing: the
\* context holds after the stage what it held before, undeclared fields
\* included, and control continues to the next entry.
C12_ValidStageLeavesContext ==
    [][(StageFindsValid /\ vars' # vars) =>
          /\ req' = req
          /\ idx' = idx + 1
          /\ phase' = "running"
          /\ res' = res]_vars

\* the body stage has passed a body with an undeclared field, and the context
\* still holds that field
C12_Witness ==
    /\ phase = "running"
    /\ trace = <<"bodyTypeParserMiddleware">>
    /\ DOMAIN input.body = {"email", "random"}
    /\ DOMAIN req.body = {"email", "random"}

\* C13: a stage that finds its slice invalid halts with the failure and leaves
\* the context as it was: body, query and params hold what they held before.
C13_InvalidStageLeavesContext ==
    [][(StageFindsInvalid /\ vars' # vars) =>
          /\ req' = req
          /\ phase' = "sent"
          /\ res'.status = 400
          /\ idx' = idx]_vars

\* the query stage has rejected a request, and the context is the request as
\* it was sent
C13_Witness ==
    /\ Rejected
    /\ trace = <<"bodyTypeParserMiddleware", "queryTypeParserMiddleware">>
    /\ req = input
    /\ DOMAIN req.query = {"foo", "random"}

\* C15: a request is answered at most once: nothing has been sent while an
\* entry of the stack is still to be called, and exactly one response, a 400
\* or the handler's 200, has been sent once the request is answered.
C15_AnsweredAtMostOnce ==
    /\ answers <= 1
    /\ phase = "running" => (answers = 0 /\ res = NoResponse)
    /\ phase = "sent" => (answers = 1 /\ res.status \in {200, 400})
    /\ phase = "idle" => answers = 0

\* the path-params stage has answered a request, once
C15_Witness ==
    /\ Rejected
    /\ Len(trace) = 3
    /\ answers = 1

\* express calls the entries of a stack synchronously, one after the other:
\* an entry that is due is called
Fairness ==
    /\ WF_vars(bodyTypeParserMiddleware)
    /\ WF_vars(queryTypeParserMiddleware)
    /\ WF_vars(pathParamsParserMiddleware)
    /\ WF_vars(handler)

\* every body and path id, with each kind of query: absent, right and wrong
FairRequests == [body : Bodies, query : ReplayQueries, params : Params]

NextFair ==
    \/ \E r \in FairRequests : Receive(r)
    \/ bodyTypeParserMiddleware
    \/ queryTypeParserMiddleware
    \/ pathParamsParserMiddleware
    \/ handler
    \/ Close

SpecFair == Init /\ [][NextFair]_vars /\ Fairness

\* C16: a request that has entered the stack is eventually answered, with the
\* handler's 200 or with a 400, after at most one call of each entry.
C16_EventuallyAnswered ==
    /\ [](Len(trace) <= Len(AttachmentOrder))
    /\ (phase = "running") ~> (phase = "sent" /\ answers = 1 /\ res.status \in {200, 400})

\* a request has been answered by the handler after all four entries were
\* called once
C16_Witness ==
    /\ Sent
    /\ res.status = 200
    /\ trace = AttachmentOrder

(***************************************************************************)
(* Two requests in flight.  Every call of a middleware gets the (req, res, *)
(* next) of its own request; the server turns from one request to the      *)
(* other between any two entries of a stack.                               *)
(***************************************************************************)
\* the per-request state the server is working on
Mine ==
    [phase |-> phase, input |-> input, req |-> req, idx |-> idx,
     res |-> res, route |-> route, trace |-> trace, answers |-> answers]

\* the server with one req object for all requests: turning to the other
\* request leaves req where it is
SwitchSharedContext ==
    /\ other' = [Mine EXCEPT !.req = other.req]
    /\ phase' = other.phase
    /\ input' = other.input
    /\ req' = req
    /\ idx' = other.idx
    /\ res' = other.res
    /\ route' = other.route
    /\ trace' = other.trace
    /\ answers' = other.answers
    /\ UNCHANGED <<console, earlier>>

\* the server turns to the other request
Switch ==
    /\ other' = Mine
    /\ phase' = other.phase
    /\ input' = other.input
    /\ req' = other.req
    /\ idx' = other.idx
    /\ res' = other.res
    /\ route' = other.route
    /\ trace' = other.trace
    /\ answers' = other.answers
    /\ UNCHANGED <<console, earlier>>

NextConc ==
    \/ \E r \in ReplayRequests : Receive(r)
    \/ bodyTypeParserMiddleware
    \/ queryTypeParserMiddleware
    \/ pathParamsParserMiddleware
    \/ handler
    \/ Close
    \/ Switch

SpecConc == Init /\ [][NextConc]_vars

\* the response to a request that is alone on POST /bar/:id
Alone(r) ==
    IF AllOk(r)
    THEN [status |-> 200,
          body |-> [payload |-> r.body, query |-> r.query, params |-> r.params]]
    ELSE [status |-> 400, body |-> [error |-> StageError(EarliestInvalid(r), r)]]

\* C17: whatever the interleaving of the stack entries of two requests in
\* flight, each is answered with the status and body it gets when it is alone.
C17_IndependentRequests ==
    /\ phase = "sent" => res = Alone(input)
    /\ other.phase = "sent" => other.res = Alone(other.input)
    /\ phase = "running" => req = input
    /\ other.phase = "running" => other.req = other.input

\* a request has been rejected while another one, with other data, is half
\* way through its stack and will be accepted
C17_Witness ==
    /\ Rejected
    /\ other.phase = "running"
    /\ other.idx = 3
    /\ AllOk(other.input)
    /\ Len(trace) = 2

(***************************************************************************)
(* Requests that differ in the fields no descriptor declares, sent by a    *)
(* client that keeps an exchange to compare later ones with.               *)
(***************************************************************************)
ExtrasBodies ==
    {WithExtras(d, n, JsString("test@gmail.com")) :
        d \in ReplayBodies, n \in 0..MaxExtra}
ExtrasQueries ==
    {WithExtras(d, n, JsString("bar")) :
        d \in ReplayQueries, n \in 0..MaxExtra}
ExtrasRequests == [body : ExtrasBodies, query : ExtrasQueries, params : ReplayParams]

NextExtras ==
    \/ \E r \in ExtrasRequests : Receive(r)
    \/ bodyTypeParserMiddleware
    \/ queryTypeParserMiddleware
    \/ pathParamsParserMiddleware
    \/ handler
    \/ Remember
    \/ Close

SpecExtras == Init /\ [][NextExtras]_vars

\* the fields of a request that the descriptors declare
Core(r) ==
    [body |-> Restrict(r.body, {"email"}),
     query |-> Restrict(r.query, {"foo"}),
     params |-> Restrict(r.params, {"id"})]

\* C18: two requests that agree on body.email, query.foo and params.id get
\* the same status and, when rejected, the same error, whatever other fields
\* their body and query carry.
C18_VerdictOfDeclaredFields ==
    (Sent /\ earlier # NoExchange /\ Core(earlier.req) = Core(input)) =>
        /\ res.status = earlier.res.status
        /\ res.status = 400 => res.body = earlier.res.body

\* a request with undeclared fields in body and query has been rejected for
\* its query like the same request without them
C18_Witness ==
    /\ Rejected
    /\ earlier # NoExchange
    /\ Core(earlier.req) = Core(input)
    /\ earlier.req = Core(earlier.req)
    /\ "random" \in DOMAIN input.body
    /\ "random" \in DOMAIN input.query
    /\ DOMAIN Details = {"foo"}

(***************************************************************************)
(* POST /foo and POST /bar: body and query only, validated inline in the   *)
(* handler, by a chain of two middlewares, or by one combined middleware.  *)
(***************************************************************************)
\* payloadLogger and queryLogger each write one line
LoggerLinesBar == 2

\* the combined middleware checking the query before the body
typeParserMiddlewareQueryFirst(bodyParserRuntype, queryParserRuntype) ==
    LET b == check(bodyParserRuntype, req.body)
        q == check(queryParserRuntype, req.query)
    IN  IF q.threw THEN send(ErrorResponse(q.err)) /\ UNCHANGED console
        ELSE IF b.threw THEN send(ErrorResponse(b.err)) /\ UNCHANGED console
        ELSE next

\* typeParserMiddleware(bodyParserRuntype, queryParserRuntype): both checks in
\* one try, the first throw is caught and answered
typeParserMiddleware(bodyParserRuntype, queryParserRuntype) ==
    LET b == check(bodyParserRuntype, req.body)
        q == check(queryParserRuntype, req.query)
    IN  IF b.threw THEN send(ErrorResponse(b.err)) /\ UNCHANGED console
        ELSE IF q.threw THEN send(ErrorResponse(q.err)) /\ UNCHANGED console
        ELSE next

typeParser ==
    /\ Current = "typeParserMiddleware"
    /\ typeParserMiddleware(PayloadRuntype, QueryParamRuntype)

\* the handler behind the chain: res.json({ payload, query })
barHandler ==
    /\ Current = "barHandler"
    /\ console' = console + LoggerLinesBar
    /\ send([status |-> 200, body |-> [payload |-> req.body, query |-> req.query]])

\* the handler behind the combined middleware: res.json(payload)
barPayloadHandler ==
    /\ Current = "barPayloadHandler"
    /\ console' = console + LoggerLinesBar
    /\ send([status |-> 200, body |-> req.body])

\* the inline handler checking the query before the body
fooHandlerQueryFirst ==
    /\ Current = "fooHandler"
    /\ LET payload == check(PayloadRuntype, req.body)
           query == check(QueryParamRuntype, req.query)
       IN  IF query.threw THEN send(ErrorResponse(query.err)) /\ UNCHANGED console
           ELSE IF payload.threw THEN send(ErrorResponse(payload.err)) /\ UNCHANGED console
           ELSE /\ console' = console + LoggerLinesBar
                /\ send([status |-> 200,
                         body |-> [payload |-> payload.value, query |-> query.value]])

\* the handler of POST /foo: check the body, check the query, log, answer with
\* what the checks returned; the first throw is caught and answered
fooHandler ==
    /\ Current = "fooHandler"
    /\ LET payload == check(PayloadRuntype, req.body)
           query == check(QueryParamRuntype, req.query)
       IN  IF payload.threw THEN send(ErrorResponse(payload.err)) /\ UNCHANGED console
           ELSE IF query.threw THEN send(ErrorResponse(query.err)) /\ UNCHANGED console
           ELSE /\ console' = console + LoggerLinesBar
                /\ send([status |-> 200,
                         body |-> [payload |-> payload.value, query |-> query.value]])

\* the routes without path params: req.params is {}
RouteRequests == [body : ExtrasBodies, query : ReplayQueries, params : {EmptyObject}]

NextRoutes ==
    \/ \E r \in RouteRequests : ReceiveOn("/foo", r)
    \/ \E r \in RouteRequests : ReceiveOn("/bar chain", r)
    \/ \E r \in RouteRequests : ReceiveOn("/bar combined", r)
    \/ bodyTypeParserMiddleware
    \/ queryTypeParserMiddleware
    \/ typeParser
    \/ barHandler
    \/ barPayloadHandler
    \/ fooHandler
    \/ Remember
    \/ Close

SpecRoutes == Init /\ [][NextRoutes]_vars

\* the handler of the route was called for the exchange
HandlerCalled(status) == status = 200

\* C19: on the same body and query, the combined middleware and the chain of
\* body and query middleware both call on to the handler exactly when body and
\* query are valid, and otherwise both answer 400 with the same error, the
\* body's when both are invalid.
C19_CombinedEqualsChain ==
    (/\ Sent
     /\ {route, earlier.route} = {"/bar chain", "/bar combined"}
     /\ earlier.req = input) =>
        /\ HandlerCalled(res.status) <=> HandlerCalled(earlier.res.status)
        /\ HandlerCalled(res.status) <=> (BodyOk(input.body) /\ QueryOk(input.query))
        /\ ~HandlerCalled(res.status) =>
              /\ res.status = 400
              /\ res = earlier.res
              /\ ~BodyOk(input.body) => DOMAIN Details = {"email"}

\* the combined middleware has rejected a request with body and query both
\* invalid that the chain rejected earlier
C19_Witness ==
    /\ Rejected
    /\ route = "/bar combined"
    /\ earlier.route = "/bar chain"
    /\ earlier.req = input
    /\ ~BodyOk(input.body)
    /\ ~QueryOk(input.query)
    /\ trace = <<"typeParserMiddleware">>

\* C20: on the same body and query, POST /foo and POST /bar behind the chain
\* answer with the same status and the same body: {payload, query} when both
\* are valid, the one error of the first invalid slice, body before query,
\* otherwise.
C20_InlineEqualsChain ==
    (/\ Sent
     /\ {route, earlier.route} = {"/foo", "/bar chain"}
     /\ earlier.req = input) =>
        /\ res = earlier.res
        /\ res.status = 200 =>
              res.body = [payload |-> input.body, query |-> input.query]
        /\ res.status # 200 =>
              /\ res.status = 400
              /\ DOMAIN Details =
                    IF ~BodyOk(input.body) THEN {"email"} ELSE {"foo"}

\* POST /foo has accepted a request with an undeclared body field that the
\* chain accepted earlier
C20_Witness ==
    /\ Sent
    /\ res.status = 200
    /\ route = "/foo"
    /\ earlier.route = "/bar chain"
    /\ earlier.req = input
    /\ "random" \in DOMAIN input.body

====
